---- MODULE Spec2Model ----
(***************************************************************************)
(* Frame scheduler and event loop of the Vulkan application:               *)
(*   src/src/app.rs   App::render, App::recreate_swapchain, App::destroy   *)
(*   src/src/main.rs  the winit event loop that drives them                *)
(* The CPU thread is one sequential process (pc is its position); the GPU  *)
(* queue is a second process that completes submitted work in submission   *)
(* order and signals the fence given to queue_submit.                      *)
(***************************************************************************)
EXTENDS Integers, Sequences, FiniteSets, TLC

\* ------------------------------------------------------------------ bounds
MaxImages == 3      \* largest number of swapchain images the surface hands out
MaxCalls  == 3      \* render calls explored per behaviour
MaxCloses == 2      \* CloseRequested events explored per behaviour
MaxDevices == 2     \* physical devices the instance enumerates
MaxSupport == 1     \* surface formats, and present modes, a device reports

\* --------------------------------------------------------------- constants
MAX_FRAMES_IN_FLIGHT == 2

Null   == 0         \* vk::Fence::null()
NoSlot == MAX_FRAMES_IN_FLIGHT        \* "no frame slot" in the history of an image index
NoImage == MaxImages       \* image_index before acquire has returned one

Slots == 0 .. (MAX_FRAMES_IN_FLIGHT - 1)

\* data.in_flight_fences: one fence handle per frame slot, all distinct and non-null
in_flight_fences == [s \in Slots |-> s + 1]

Fences == {in_flight_fences[s] : s \in Slots}

\* data.image_available_semaphores, data.render_finished_semaphores: one
\* semaphore handle per frame slot in each, all distinct
image_available_semaphores == [s \in Slots |-> MAX_FRAMES_IN_FLIGHT + s + 1]

render_finished_semaphores == [s \in Slots |-> 2 * MAX_FRAMES_IN_FLIGHT + s + 1]

\* no handle and no index passed yet
\* sync.rs creates one semaphore of each kind per frame slot
Semaphores ==
    {image_available_semaphores[s] : s \in Slots}
        \cup {render_finished_semaphores[s] : s \in Slots}

NoArgs ==
    [acquire_semaphore |-> Null, update_index |-> MaxImages,
     wait_semaphores |-> Null, signal_semaphores |-> Null,
     submit_fence |-> Null, present_wait |-> Null]

\* result codes of acquire_next_image_khr / queue_present_khr
SUCCESS          == "SUCCESS"
SUBOPTIMAL_KHR   == "SUBOPTIMAL_KHR"
OUT_OF_DATE_KHR  == "ERROR_OUT_OF_DATE_KHR"
NONE             == "NONE"
FatalErrors      == {"ERROR_DEVICE_LOST", "ERROR_SURFACE_LOST_KHR"}

\* window sizes a Resized event may report (width or height may be zero)
Sizes == {<<0, 600>>, <<800, 0>>, <<800, 600>>}

VARIABLES
    \* main.rs
    pc,               \* position of the CPU thread
    loop,             \* "running" | "exited" | "panicked"
    destroying,       \* main.rs:24
    minimized,        \* main.rs:25
    control,          \* *control_flow (main.rs:28, 44): "Poll" | "Exit"
    \* App
    frame,            \* app.rs:62
    resized,          \* app.rs:63
    images_in_flight, \* app_data.rs:50, a function 0..len-1 -> fence handle
    imageCount,       \* data.swapchain_images.len()
    \* locals of App::render
    image_index,      \* app.rs:124
    image_in_flight,  \* app.rs:130
    acquire_result,   \* app.rs:117
    present_result,   \* app.rs:162
    entry,            \* call site recreate_swapchain returns to: "acquire" | "present"
    callArgs,         \* handles and index this call passed to the device (app.rs:120-157)
    \* device
    fenceSignaled,    \* fence handle -> signaled?
    gpuQueue,         \* submitted and unfinished work, in submission order
    \* history
    callLog,          \* operations attempted by the current/last render call, in order
    startFrame,       \* frame slot at the start of the current/last render call
    callResult,       \* "none" | "running" | "ok" | "err"
    error,            \* the Err value the last failed call returned
    recreate_result,  \* result of recreate_swapchain in the current/last call
    observed,         \* fences wait_for_fences returned for in this call
    resizedAtPresent, \* value of self.resized when queue_present_khr returned
    submitLog,        \* every queue_submit so far: [slot, image, gen]
    recreates,        \* number of completed swapchain rebuilds
    teardownLog,      \* operations attempted by App::destroy
    calls,            \* number of render calls started
    \* handles
    destroyed,        \* Data fields (and instance, device) whose handle is destroyed
    faults,           \* <<"leak", h>>: h overwritten while live; <<"double_free", h>>
    swapDestroyLog,   \* handles destroy_swapchain destroyed in this call, in order
    \* event loop history
    destroyCalls,     \* number of calls of app.destroy() (main.rs:45)
    lastSize,         \* size the last Resized event reported
    resizedBy,        \* size reported by the event that set app.resized, while set
    \* setup
    devices,          \* instance.enumerate_physical_devices(), in order
    physical_device,  \* app_data.rs:9, index into devices (NoDevice: none selected)
    setup,            \* result of App::create: "none" | "ok" | "err"
    \* semaphores and the presentation engine
    signals,          \* semaphore handle -> signal operations requested and not yet waited for
    presentQueue,     \* present requests whose semaphore wait has not executed, in order
    acquirable        \* the presentation engine can answer acquire_next_image_khr now

vars == <<pc, loop, destroying, minimized, frame, resized, images_in_flight,
          imageCount, image_index, image_in_flight, acquire_result,
          present_result, entry, callArgs, fenceSignaled, gpuQueue, callLog, startFrame,
          callResult, error, recreate_result, observed, resizedAtPresent,
          submitLog, recreates, teardownLog, calls, destroyed, faults,
          swapDestroyLog, control, destroyCalls, lastSize, resizedBy,
          devices, physical_device, setup, signals, presentQueue, acquirable>>

mainVars    == <<loop, destroying, minimized>>
localVars   == <<image_index, image_in_flight, acquire_result, present_result, entry,
                 callArgs>>
deviceVars  == <<fenceSignaled, gpuQueue>>
swapVars    == <<images_in_flight, imageCount, recreates>>
resVars     == <<destroyed, faults, swapDestroyLog>>
loopVars    == <<control, destroyCalls, lastSize, resizedBy>>
setupVars   == <<devices, physical_device, setup>>
engineVars  == <<signals, presentQueue, acquirable>>

\* ----------------------------------------------------------------- helpers
Logged(op) == \E k \in 1 .. Len(callLog) : callLog[k] = op

Count(op) == Cardinality({k \in 1 .. Len(callLog) : callLog[k] = op})

\* op a was attempted, and before every attempt of op b
Before(a, b) ==
    \A k \in 1 .. Len(callLog) :
        callLog[k] = b => \E j \in 1 .. (k - 1) : callLog[j] = a

\* mutant: the vector keeps its length
VecKeep(v, new_len, value) == v

\* Vec::resize(new_len, value): keeps the first new_len entries, fills new ones
VecResize(v, new_len, value) ==
    [i \in 0 .. (new_len - 1) |-> IF i \in DOMAIN v THEN v[i] ELSE value]

\* ----------------------------------------------------------------- handles
\* app_defines.rs:3  cfg!(debug_assertions): a debug build
VALIDATION_ENABLED == TRUE

Range(seq) == {seq[k] : k \in 1 .. Len(seq)}

\* position of handle h in a sequence that holds it once
Pos(seq, h) == CHOOSE k \in 1 .. Len(seq) : seq[k] = h

\* app.rs:180-195  what recreate_swapchain creates, in order, by Data field
RecreateOrder ==
    <<"swapchain", "swapchain_image_views", "render_pass", "pipeline_layout",
      "pipeline", "depth_image", "depth_image_memory", "depth_image_view",
      "framebuffers", "uniform_buffers", "uniform_buffers_memory",
      "descriptor_pool", "command_buffers">>

\* app.rs:72-106  what App::create creates, in order
CreateOrder ==
    <<"instance">> \o (IF VALIDATION_ENABLED THEN <<"messenger">> ELSE <<>>) \o
    <<"surface", "device", "swapchain", "swapchain_image_views", "render_pass",
      "descriptor_set_layout", "pipeline_layout", "pipeline", "command_pool",
      "depth_image", "depth_image_memory", "depth_image_view", "framebuffers",
      "vertex_buffer", "vertex_buffer_memory", "index_buffer",
      "index_buffer_memory", "uniform_buffers", "uniform_buffers_memory",
      "descriptor_pool", "command_buffers", "image_available_semaphores",
      "render_finished_semaphores", "in_flight_fences">>

\* mutant: the descriptor pool is not destroyed with the swapchain
DestroySwapchainNoPool ==
    <<"command_buffers", "uniform_buffers_memory", "uniform_buffers",
      "depth_image_view", "depth_image_memory", "depth_image", "framebuffers",
      "pipeline", "pipeline_layout", "render_pass", "swapchain_image_views",
      "swapchain">>

\* app.rs:226-240  destroy_swapchain
DestroySwapchainOrder ==
    <<"command_buffers", "descriptor_pool", "uniform_buffers_memory",
      "uniform_buffers", "depth_image_view", "depth_image_memory",
      "depth_image", "framebuffers", "pipeline", "pipeline_layout",
      "render_pass", "swapchain_image_views", "swapchain">>

\* mutant: the device is destroyed before the command pool
DestroyOrderDeviceFirst ==
    <<"in_flight_fences", "render_finished_semaphores",
      "image_available_semaphores", "index_buffer_memory", "index_buffer",
      "vertex_buffer_memory", "vertex_buffer", "device", "command_pool",
      "descriptor_set_layout", "surface">> \o
    (IF VALIDATION_ENABLED THEN <<"messenger">> ELSE <<>>) \o <<"instance">>

\* app.rs:207-223  App::destroy after destroy_swapchain
DestroyOrder ==
    <<"in_flight_fences", "render_finished_semaphores",
      "image_available_semaphores", "index_buffer_memory", "index_buffer",
      "vertex_buffer_memory", "vertex_buffer", "command_pool",
      "descriptor_set_layout", "device", "surface">> \o
    (IF VALIDATION_ENABLED THEN <<"messenger">> ELSE <<>>) \o <<"instance">>

\* every field App::create stores a handle in
Handles == Range(CreateOrder)

\* the fields that hold a live handle
live == Handles \ destroyed

RECURSIVE DestroyAll(_, _, _)
\* destroy the handles of seq in order; destroying one that is not live is a fault
DestroyAll(lv, fl, seq) ==
    IF seq = <<>> THEN [live |-> lv, faults |-> fl]
    ELSE DestroyAll(lv \ {Head(seq)},
                    IF Head(seq) \in lv THEN fl
                    ELSE fl \cup {<<"double_free", Head(seq)>>},
                    Tail(seq))

RECURSIVE CreateAll(_, _, _)
\* store new handles in the fields of seq; overwriting a live one loses it
CreateAll(lv, fl, seq) ==
    IF seq = <<>> THEN [live |-> lv, faults |-> fl]
    ELSE CreateAll(lv \cup {Head(seq)},
                   IF Head(seq) \in lv THEN fl \cup {<<"leak", Head(seq)>>}
                   ELSE fl,
                   Tail(seq))


\* ------------------------------------------------------------------ setup
\* what check_physical_device reads of a device: whether it has the queue
\* families (physical_device.rs:28), whether it has the swapchain extension
\* (39-48), and how many surface formats and present modes it reports (31)
Devices ==
    [queues : BOOLEAN, swapchain_ext : BOOLEAN,
     formats : 0 .. MaxSupport, present_modes : 0 .. MaxSupport]

DeviceLists == UNION {[1 .. n -> Devices] : n \in 0 .. MaxDevices}

SuitableDevice ==
    [queues |-> TRUE, swapchain_ext |-> TRUE, formats |-> 1, present_modes |-> 1]

\* data.physical_device while none is selected
NoDevice == 0

\* physical_device.rs:39-48
check_physical_device_extensions(d) == d.swapchain_ext

\* mutant: support is insufficient only when both lists are empty
InsufficientBoth(d) == d.formats = 0 /\ d.present_modes = 0

\* physical_device.rs:32  formats.is_empty() || present_modes.is_empty()
InsufficientSupport(d) == d.formats = 0 \/ d.present_modes = 0

\* physical_device.rs:27-37  TRUE when the function returns Ok(())
check_physical_device(d) ==
    /\ d.queues
    /\ check_physical_device_extensions(d)
    /\ ~InsufficientSupport(d)

RECURSIVE PickFrom(_, _)
\* the loop of pick_physical_device from the k-th device on
PickFrom(devs, k) ==
    IF k > Len(devs) THEN NoDevice
    ELSE IF check_physical_device(devs[k]) THEN k
    ELSE PickFrom(devs, k + 1)

\* physical_device.rs:11-25  the device selected; NoDevice for Err
pick_physical_device(devs) == PickFrom(devs, 1)

\* ------------------------------------------------------------------- Init
\* State after App::create returned Ok and main set its two flags:
\* frame: 0, resized: false (app.rs:108); destroying, minimized false
\* (main.rs:24-25); the fences are created signaled and the table holds one
\* null entry per swapchain image; the window was built with a non-zero
\* inner size (main.rs:20).
Running ==
    /\ loop = "running"
    /\ destroying = FALSE
    /\ minimized = FALSE
    /\ frame = 0
    /\ resized = FALSE
    /\ image_index = NoImage
    /\ image_in_flight = Null
    /\ acquire_result = NONE
    /\ present_result = NONE
    /\ entry = NONE
    /\ callArgs = NoArgs
    /\ fenceSignaled = [f \in Fences |-> TRUE]
    /\ gpuQueue = <<>>
    /\ callLog = <<>>
    /\ startFrame = 0
    /\ callResult = "none"
    /\ error = NONE
    /\ recreate_result = NONE
    /\ observed = {}
    /\ resizedAtPresent = FALSE
    /\ submitLog = <<>>
    /\ recreates = 0
    /\ teardownLog = <<>>
    /\ calls = 0
    /\ faults = {}
    /\ swapDestroyLog = <<>>
    /\ control = "Poll"
    /\ destroyCalls = 0
    /\ lastSize = <<800, 600>>
    /\ resizedBy = <<>>
    /\ signals = [x \in Semaphores |-> 0]
    /\ presentQueue = <<>>
    /\ acquirable = TRUE

Init ==
    /\ pc = "idle"
    /\ imageCount \in 1 .. MaxImages
    /\ images_in_flight = [i \in 0 .. (imageCount - 1) |-> Null]
    /\ destroyed = {}
    /\ devices = <<SuitableDevice>>
    /\ physical_device = 1
    /\ setup = "ok"
    /\ Running

\* --------------------------------------------------- steps of a render call
\* the call goes on to its next statement
Step(op, next) ==
    /\ pc' = next
    /\ callLog' = Append(callLog, op)
    /\ UNCHANGED <<loop, callResult, error>>

\* the call returns Err(e); main.rs:31 unwraps it, which panics
Fail(op, e) ==
    /\ pc' = "dead"
    /\ callLog' = Append(callLog, op)
    /\ callResult' = "err"
    /\ error' = e
    /\ loop' = "panicked"

\* the call returns Ok(()) to the event loop
ReturnOk ==
    /\ pc' = "idle"
    /\ callResult' = "ok"
    /\ UNCHANGED <<loop, error>>

\* main.rs:31  Event::MainEventsCleared if !destroying && !minimized
MainEventsCleared ==
    /\ pc = "idle" /\ loop = "running"
    /\ ~destroying /\ ~minimized
    /\ calls < MaxCalls
    /\ calls' = calls + 1
    /\ pc' = "wait"
    /\ callLog' = <<>>
    /\ startFrame' = frame
    /\ callResult' = "running"
    /\ error' = NONE
    /\ recreate_result' = NONE
    /\ observed' = {}
    /\ resizedAtPresent' = FALSE
    /\ image_index' = NoImage
    /\ image_in_flight' = Null
    /\ acquire_result' = NONE
    /\ present_result' = NONE
    /\ entry' = NONE
    /\ callArgs' = NoArgs
    /\ swapDestroyLog' = <<>>
    /\ UNCHANGED <<engineVars,
                   setupVars,
                   destroyed, faults, loopVars,
                   mainVars, frame, resized, swapVars, deviceVars, submitLog,
                   teardownLog>>

\* app.rs:112-115  wait_for_fences(&[in_flight_fence], true, u64::MAX)?
RenderWait ==
    /\ pc = "wait"
    /\ LET in_flight_fence == in_flight_fences[frame] IN
        \/ /\ fenceSignaled[in_flight_fence]
           /\ observed' = observed \cup {in_flight_fence}
           /\ Step("wait", "acquire")
        \/ /\ \E e \in FatalErrors : Fail("wait", e)
           /\ UNCHANGED observed
    /\ UNCHANGED <<engineVars,
                   setupVars,
                   resVars, loopVars,
                   destroying, minimized, frame, resized, swapVars, localVars,
                   deviceVars, startFrame, recreate_result, resizedAtPresent,
                   submitLog, teardownLog, calls>>

\* app.rs:123  Ok((image_index, _)) => image_index: the success code is dropped
AcquireOk(code) == SUCCESS

\* app.rs:120  the semaphore acquire_next_image_khr is asked to signal
AcquireSemaphore(f) == image_available_semaphores[f]

\* a signal operation on semaphore x is requested
Signal(sig, x) == [sig EXCEPT ![x] = @ + 1]

\* a wait operation on semaphore x executes and unsignals it
Consume(sig, x) == [sig EXCEPT ![x] = @ - 1]

\* app.rs:117-128  acquire_next_image_khr and the match on its result; with
\* the timeout u64::max_value() (119) the call returns only once the
\* presentation engine answers
RenderAcquire ==
    /\ pc = "acquire"
    /\ callArgs' = [callArgs EXCEPT !.acquire_semaphore = AcquireSemaphore(frame)]
    /\ \/ /\ acquirable
          /\ \E i \in 0 .. (imageCount - 1) : image_index' = i
          /\ \E code \in {SUCCESS, SUBOPTIMAL_KHR} : acquire_result' = AcquireOk(code)
          /\ signals' = Signal(signals, AcquireSemaphore(frame))
          /\ Step("acquire", "crosswait")
          /\ UNCHANGED entry
       \/ /\ acquirable
          /\ acquire_result' = OUT_OF_DATE_KHR
          /\ entry' = "acquire"
          /\ Step("acquire", "recreate_wait")
          /\ UNCHANGED <<image_index, signals>>
       \/ /\ \E e \in FatalErrors : acquire_result' = e /\ Fail("acquire", e)
          /\ UNCHANGED <<image_index, entry, signals>>
    /\ UNCHANGED <<presentQueue, acquirable,
                   setupVars,
                   resVars, loopVars,
                   destroying, minimized, frame, resized, swapVars,
                   image_in_flight, present_result, deviceVars, startFrame,
                   recreate_result, observed, resizedAtPresent, submitLog,
                   teardownLog, calls>>

\* mutant: the cross-wait is never taken
NeverCrossWait(f) == FALSE

\* app.rs:131  !image_in_flight.is_null()
NeedsCrossWait(f) == f # Null

\* app.rs:130-134  the cross-wait on the fence recorded for the acquired image
RenderCrossWait ==
    /\ pc = "crosswait"
    /\ image_in_flight' = images_in_flight[image_index]
    /\ IF NeedsCrossWait(images_in_flight[image_index])
       THEN \/ /\ fenceSignaled[images_in_flight[image_index]]
               /\ observed' = observed \cup {images_in_flight[image_index]}
               /\ Step("crosswait", "record")
            \/ /\ \E e \in FatalErrors : Fail("crosswait", e)
               /\ UNCHANGED observed
       ELSE /\ pc' = "record"
            /\ UNCHANGED <<callLog, loop, callResult, error, observed>>
    /\ UNCHANGED <<engineVars,
                   setupVars,
                   resVars, loopVars,
                   destroying, minimized, frame, resized, swapVars,
                   image_index, acquire_result, present_result, entry, callArgs,
                   deviceVars, startFrame, recreate_result, resizedAtPresent,
                   submitLog, teardownLog, calls>>

\* mutant: the table is not written
RecordNothing(table, i, fence) == table

\* mutant: the table entry is written only while it is empty
RecordOnlyIfEmpty(table, i, fence) ==
    IF table[i] = Null THEN [table EXCEPT ![i] = fence] ELSE table

\* app.rs:136  self.data.images_in_flight[image_index] = in_flight_fence
RecordImageInFlight(table, i, fence) == [table EXCEPT ![i] = fence]

RenderRecord ==
    /\ pc = "record"
    /\ images_in_flight' =
           RecordImageInFlight(images_in_flight, image_index, in_flight_fences[frame])
    /\ Step("record", "update")
    /\ UNCHANGED <<engineVars,
                   setupVars,
                   resVars, loopVars,
                   destroying, minimized, frame, resized, imageCount, recreates,
                   localVars, deviceVars, startFrame, recreate_result, observed,
                   resizedAtPresent, submitLog, teardownLog, calls>>

\* app.rs:138, 242-284  update_uniform_buffer(image_index)?  (map_memory may fail)
RenderUpdateUniformBuffer ==
    /\ pc = "update"
    /\ callArgs' = [callArgs EXCEPT !.update_index = image_index]
    /\ \/ Step("update", "reset")
       \/ \E e \in FatalErrors : Fail("update", e)
    /\ UNCHANGED <<engineVars,
                   setupVars,
                   resVars, loopVars,
                   destroying, minimized, frame, resized, swapVars, image_index,
                   image_in_flight, acquire_result, present_result, entry,
                   deviceVars, startFrame, recreate_result, observed,
                   resizedAtPresent, submitLog, teardownLog, calls>>

\* mutant: every in-flight fence is reset
ResetAllFences(signaled, f) == [g \in Fences |-> FALSE]

\* reset_fences(&[f]): f becomes unsignaled
ResetFences(signaled, f) == [signaled EXCEPT ![f] = FALSE]

\* app.rs:150  reset_fences(&[in_flight_fence])?
RenderResetFences ==
    /\ pc = "reset"
    /\ \/ /\ fenceSignaled' = ResetFences(fenceSignaled, in_flight_fences[frame])
          /\ Step("reset", "submit")
       \/ /\ \E e \in FatalErrors : Fail("reset", e)
          /\ UNCHANGED fenceSignaled
    /\ UNCHANGED <<engineVars,
                   setupVars,
                   resVars, loopVars,
                   destroying, minimized, frame, resized, swapVars, localVars,
                   gpuQueue, startFrame, recreate_result, observed,
                   resizedAtPresent, submitLog, teardownLog, calls>>

\* mutant: the wait semaphore is picked by the acquired image index
WaitSemaphoreByImage(f, i) == image_available_semaphores[i % MAX_FRAMES_IN_FLIGHT]

\* app.rs:140  wait_semaphores = &[image_available_semaphores[self.frame]]
WaitSemaphore(f, i) == image_available_semaphores[f]

\* app.rs:143  signal_semaphores = &[render_finished_semaphores[self.frame]]
SignalSemaphore(f, i) == render_finished_semaphores[f]

\* app.rs:140-153  queue_submit(graphics_queue, &[submit_info], in_flight_fence)?
RenderSubmit ==
    /\ pc = "submit"
    /\ callArgs' = [callArgs EXCEPT
                       !.wait_semaphores = WaitSemaphore(frame, image_index),
                       !.signal_semaphores = SignalSemaphore(frame, image_index),
                       !.submit_fence = in_flight_fences[frame]]
    /\ \/ /\ gpuQueue' = Append(gpuQueue, [slot   |-> frame,
                                           image  |-> image_index,
                                           fence  |-> in_flight_fences[frame],
                                           wait   |-> WaitSemaphore(frame, image_index),
                                           signal |-> SignalSemaphore(frame, image_index)])
          /\ signals' = Signal(signals, SignalSemaphore(frame, image_index))
          /\ submitLog' = Append(submitLog, [slot  |-> frame,
                                             image |-> image_index,
                                             gen   |-> recreates])
          /\ Step("submit", "present")
       \/ /\ \E e \in FatalErrors : Fail("submit", e)
          /\ UNCHANGED <<gpuQueue, submitLog, signals>>
    /\ UNCHANGED <<presentQueue, acquirable,
                   setupVars,
                   resVars, loopVars,
                   destroying, minimized, frame, resized, swapVars, image_index,
                   image_in_flight, acquire_result, present_result, entry,
                   fenceSignaled, startFrame, recreate_result, observed,
                   resizedAtPresent, teardownLog, calls>>

\* mutant: only the suboptimal success code counts as a change
ChangedSuboptimalOnly(result) == result = SUBOPTIMAL_KHR

\* app.rs:163  result == Ok(SUBOPTIMAL_KHR) || result == Err(OUT_OF_DATE_KHR)
Changed(result) == result = SUBOPTIMAL_KHR \/ result = OUT_OF_DATE_KHR

\* mutant: the resize flag is not consulted
IgnoresResizeFlag(flag, changed) == changed

\* app.rs:164  if self.resized || changed
NeedsRecreate(flag, changed) == flag \/ changed

\* app.rs:167  else if let Err(e) = result
IsErr(result) == result \notin {SUCCESS, SUBOPTIMAL_KHR}

PresentResults == {SUCCESS, SUBOPTIMAL_KHR, OUT_OF_DATE_KHR} \cup FatalErrors

\* app.rs:155-169  queue_present_khr and the handling of its result
\* (the request's semaphore wait is enqueued whatever code is returned)
RenderPresent ==
    /\ pc = "present"
    /\ \E r \in PresentResults :
        /\ present_result' = r
        /\ callArgs' = [callArgs EXCEPT !.present_wait = callArgs.signal_semaphores]
        /\ resizedAtPresent' = resized
        /\ presentQueue' = Append(presentQueue,
                                  [wait |-> callArgs.signal_semaphores,
                                   submission |-> Len(submitLog)])
        /\ IF NeedsRecreate(resized, Changed(r))
           THEN /\ resized' = FALSE
                /\ resizedBy' = <<>>
                /\ entry' = "present"
                /\ Step("present", "recreate_wait")
           ELSE IF IsErr(r)
           THEN /\ Fail("present", r)
                /\ UNCHANGED <<resized, resizedBy, entry>>
           ELSE /\ Step("present", "advance")
                /\ UNCHANGED <<resized, resizedBy, entry>>
    /\ UNCHANGED <<signals, acquirable,
                   setupVars,
                   resVars, control, destroyCalls, lastSize,
                   destroying, minimized, frame, swapVars, image_index,
                   image_in_flight, acquire_result, deviceVars, startFrame,
                   recreate_result, observed, submitLog, teardownLog, calls>>

\* mutant: the next slot is derived from the acquired image index
NextFrameByImage(f) == (image_index + 1) % MAX_FRAMES_IN_FLIGHT

\* app.rs:171  (self.frame + 1) % MAX_FRAMES_IN_FLIGHT
NextFrame(f) == (f + 1) % MAX_FRAMES_IN_FLIGHT

\* app.rs:171-173  advance the frame slot and return Ok(())
RenderAdvance ==
    /\ pc = "advance"
    /\ frame' = NextFrame(frame)
    /\ callLog' = Append(callLog, "advance")
    /\ ReturnOk
    /\ UNCHANGED <<engineVars,
                   setupVars,
                   resVars, loopVars,
                   destroying, minimized, resized, swapVars, localVars,
                   deviceVars, startFrame, recreate_result, observed,
                   resizedAtPresent, submitLog, teardownLog, calls>>

\* ------------------------------------------------------ recreate_swapchain
\* mutant: recreate_swapchain does not wait for the device
NeverWaitsIdle(queue) == TRUE

\* app.rs:177  device_wait_idle returns once no submitted work is unfinished
DeviceIdle(queue) == queue = <<>>

\* app.rs:177  self.device.device_wait_idle()?
RecreateWaitIdle ==
    /\ pc = "recreate_wait"
    /\ \/ /\ DeviceIdle(gpuQueue)
          /\ Step("device_wait_idle", "recreate_build")
          /\ UNCHANGED recreate_result
       \/ \E e \in FatalErrors : Fail("device_wait_idle", e) /\ recreate_result' = e
    /\ UNCHANGED <<engineVars,
                   setupVars,
                   resVars, loopVars,
                   destroying, minimized, frame, resized, swapVars, localVars,
                   deviceVars, startFrame, observed, resizedAtPresent,
                   submitLog, teardownLog, calls>>

\* app.rs:178-199  destroy_swapchain, the rebuild, and
\* images_in_flight.resize(swapchain_images.len(), vk::Fence::null())
RecreateBuild ==
    /\ pc = "recreate_build"
    /\ swapDestroyLog' = DestroySwapchainOrder
    /\ \E d \in {DestroyAll(live, faults, DestroySwapchainOrder)} :
       \/ /\ \E m \in 1 .. MaxImages :
               /\ imageCount' = m
               /\ images_in_flight' = VecResize(images_in_flight, m, Null)
          /\ \E c \in {CreateAll(d.live, d.faults, RecreateOrder)} :
               /\ destroyed' = Handles \ c.live
               /\ faults' = c.faults
          /\ recreates' = recreates + 1
          /\ recreate_result' = SUCCESS
          /\ Step("recreate", "recreate_ret")
       \/ /\ \E e \in FatalErrors : Fail("recreate", e) /\ recreate_result' = e
          /\ destroyed' = Handles \ d.live
          /\ faults' = d.faults
          /\ UNCHANGED swapVars
    /\ UNCHANGED <<engineVars,
                   setupVars,
                   loopVars,
                   destroying, minimized, frame, resized, localVars, deviceVars,
                   startFrame, observed, resizedAtPresent, submitLog,
                   teardownLog, calls>>

\* mutant: the present path returns without the slot advance as well
AlwaysReturn(e) == "return"

\* mutant: the acquire path falls through to the slot advance as well
AlwaysAdvance(e) == "advance"

\* what the caller of recreate_swapchain does with Ok(()):
\* app.rs:126 returns it, app.rs:166 goes on to line 171
AfterRecreate(e) == IF e = "acquire" THEN "return" ELSE "advance"

RecreateReturn ==
    /\ pc = "recreate_ret"
    /\ IF AfterRecreate(entry) = "return"
       THEN ReturnOk
       ELSE pc' = "advance" /\ UNCHANGED <<loop, callResult, error>>
    /\ UNCHANGED <<engineVars,
                   setupVars,
                   resVars, loopVars,
                   destroying, minimized, frame, resized, swapVars, localVars,
                   deviceVars, callLog, startFrame, recreate_result, observed,
                   resizedAtPresent, submitLog, teardownLog, calls>>

\* ------------------------------------------------------------------ device
\* the graphics queue finishes its oldest submission: its semaphore wait has
\* executed (app.rs:140), its signal semaphore (143) and the fence that
\* queue_submit was given (152-153) are signaled
GpuComplete ==
    /\ loop = "running"
    /\ gpuQueue # <<>>
    /\ fenceSignaled' = [fenceSignaled EXCEPT ![Head(gpuQueue).fence] = TRUE]
    /\ signals' = Consume(signals, Head(gpuQueue).wait)
    /\ gpuQueue' = Tail(gpuQueue)
    /\ UNCHANGED <<presentQueue, acquirable,
                   setupVars,
                   resVars, loopVars,
                   pc, mainVars, frame, resized, swapVars, localVars, callLog,
                   startFrame, callResult, error, recreate_result, observed,
                   resizedAtPresent, submitLog, teardownLog, calls>>

\* ------------------------------------------------------ presentation engine
\* the oldest present request is processed: its wait on the render-finished
\* semaphore (app.rs:157) executes once the submission that signals the
\* semaphore has finished; nothing tells the program when
PresentConsume ==
    /\ loop = "running"
    /\ presentQueue # <<>>
    /\ Head(presentQueue).submission <= Len(submitLog) - Len(gpuQueue)
    /\ signals' = Consume(signals, Head(presentQueue).wait)
    /\ presentQueue' = Tail(presentQueue)
    /\ UNCHANGED <<setupVars, resVars, loopVars, pc, mainVars, frame, resized,
                   swapVars, localVars, deviceVars, callLog, startFrame,
                   callResult, error, recreate_result, observed,
                   resizedAtPresent, submitLog, teardownLog, calls, acquirable>>

\* every presentable image is held by the presentation engine
EngineBusy ==
    /\ loop = "running"
    /\ acquirable
    /\ acquirable' = FALSE
    /\ UNCHANGED <<setupVars, resVars, loopVars, pc, mainVars, frame, resized,
                   swapVars, localVars, deviceVars, callLog, startFrame,
                   callResult, error, recreate_result, observed,
                   resizedAtPresent, submitLog, teardownLog, calls, signals,
                   presentQueue>>

\* the presentation engine releases an image, or the surface changes
EngineReady ==
    /\ loop = "running"
    /\ ~acquirable
    /\ acquirable' = TRUE
    /\ UNCHANGED <<setupVars, resVars, loopVars, pc, mainVars, frame, resized,
                   swapVars, localVars, deviceVars, callLog, startFrame,
                   callResult, error, recreate_result, observed,
                   resizedAtPresent, submitLog, teardownLog, calls, signals,
                   presentQueue>>

\* -------------------------------------------------------------- event loop
\* the closure is called for the next event: the locals of the last render
\* call are out of scope and its history is dropped
NextEvent ==
    /\ callLog' = <<>>
    /\ callResult' = "none"
    /\ error' = NONE
    /\ recreate_result' = NONE
    /\ observed' = {}
    /\ resizedAtPresent' = FALSE
    /\ image_index' = NoImage
    /\ image_in_flight' = Null
    /\ acquire_result' = NONE
    /\ present_result' = NONE
    /\ entry' = NONE
    /\ callArgs' = NoArgs
    /\ swapDestroyLog' = <<>>
    /\ startFrame' = frame

\* main.rs:34  size.width == 0 || size.height == 0
IsZeroSize(size) == size[1] = 0 \/ size[2] = 0

\* main.rs:33-40  WindowEvent::Resized(size)
Resized ==
    /\ pc = "idle" /\ loop = "running"
    /\ \E size \in Sizes :
        /\ lastSize' = size
        /\ IF IsZeroSize(size)
           THEN minimized' = TRUE /\ UNCHANGED <<resized, resizedBy>>
           ELSE minimized' = FALSE /\ resized' = TRUE /\ resizedBy' = size
    /\ NextEvent
    /\ UNCHANGED <<engineVars,
                   setupVars,
                   destroyed, faults, control, destroyCalls,
                   pc, loop, destroying, frame, swapVars, deviceVars,
                   submitLog, teardownLog, calls>>

\* a Resized event while the loop polls
WindowResized == control = "Poll" /\ Resized

\* a Resized event that was already queued when Exit was set: Exit is sticky
\* (main.rs:28 does not undo it) but the closure is still called for it
QueuedWindowResized == control = "Exit" /\ Resized

\* main.rs:42-46  WindowEvent::CloseRequested, up to the call of app.destroy()
Closed ==
    /\ pc = "idle" /\ loop = "running"
    /\ destroyCalls < MaxCloses
    /\ destroying' = TRUE
    /\ control' = "Exit"
    /\ destroyCalls' = destroyCalls + 1
    /\ pc' = "destroy_wait"
    /\ NextEvent
    /\ UNCHANGED <<engineVars,
                   setupVars,
                   destroyed, faults, lastSize, resizedBy,
                   loop, minimized, frame, resized, swapVars, deviceVars,
                   submitLog, teardownLog, calls>>

\* a CloseRequested event while the loop polls
CloseRequested == control = "Poll" /\ Closed

\* a CloseRequested event that was already queued when Exit was set
QueuedCloseRequested == control = "Exit" /\ Closed

\* app.rs:203  self.device.device_wait_idle().unwrap()
DestroyWaitIdle ==
    /\ pc = "destroy_wait"
    /\ teardownLog' = Append(teardownLog, "device_wait_idle")
    /\ \/ gpuQueue = <<>> /\ pc' = "destroy" /\ UNCHANGED loop
       \/ pc' = "dead" /\ loop' = "panicked"
    /\ UNCHANGED <<engineVars,
                   setupVars,
                   resVars, loopVars,
                   destroying, minimized, frame, resized, swapVars, localVars,
                   deviceVars, callLog, startFrame, callResult, error,
                   recreate_result, observed, resizedAtPresent, submitLog,
                   calls>>

\* app.rs:205-223  destroy_swapchain and the long-lived objects; destroy returns
\* to the closure, which returns to the event loop
Destroy ==
    /\ pc = "destroy"
    /\ teardownLog' = teardownLog \o DestroySwapchainOrder \o DestroyOrder
    /\ swapDestroyLog' = DestroySwapchainOrder
    /\ \E d \in {DestroyAll(live, faults, DestroySwapchainOrder \o DestroyOrder)} :
           /\ destroyed' = Handles \ d.live
           /\ faults' = d.faults
    /\ pc' = "idle"
    /\ UNCHANGED <<engineVars,
                   setupVars,
                   loopVars, loop,
                   destroying, minimized, frame, resized, swapVars, localVars,
                   deviceVars, callLog, startFrame, callResult, error,
                   recreate_result, observed, resizedAtPresent, submitLog,
                   calls>>

\* main.rs:44  the event loop stops once *control_flow is Exit
LoopExit ==
    /\ pc = "idle" /\ loop = "running"
    /\ control = "Exit"
    /\ pc' = "dead"
    /\ loop' = "exited"
    /\ UNCHANGED <<engineVars,
                   setupVars,
                   resVars, loopVars,
                   destroying, minimized, frame, resized, swapVars, localVars,
                   deviceVars, callLog, startFrame, callResult, error,
                   recreate_result, observed, resizedAtPresent, submitLog,
                   teardownLog, calls>>

Next ==
    \/ MainEventsCleared
    \/ RenderWait
    \/ RenderAcquire
    \/ RenderCrossWait
    \/ RenderRecord
    \/ RenderUpdateUniformBuffer
    \/ RenderResetFences
    \/ RenderSubmit
    \/ RenderPresent
    \/ RenderAdvance
    \/ RecreateWaitIdle
    \/ RecreateBuild
    \/ RecreateReturn
    \/ GpuComplete
    \/ WindowResized
    \/ CloseRequested
    \/ DestroyWaitIdle
    \/ Destroy
    \/ LoopExit

Spec == Init /\ [][Next]_vars

\* ------------------------------------------------------------- App::create
\* the process before App::create: no handle exists, no swapchain, no table
InitSetup ==
    /\ pc = "create"
    /\ imageCount = 0
    /\ images_in_flight = <<>>
    /\ destroyed = Handles
    /\ devices \in DeviceLists
    /\ physical_device = NoDevice
    /\ setup = "none"
    /\ Running

\* App::create returns Err; main.rs:23 unwraps it, which panics
CreateFails ==
    /\ pc' = "dead"
    /\ loop' = "panicked"
    /\ setup' = "err"

\* app.rs:72-74  instance::create and create_surface
CreateInstance ==
    /\ pc = "create"
    /\ \/ /\ pc' = "pick"
          /\ destroyed' = destroyed \ Range(SubSeq(CreateOrder, 1, Pos(CreateOrder, "surface")))
          /\ UNCHANGED <<loop, setup>>
       \/ CreateFails /\ UNCHANGED destroyed
    /\ UNCHANGED <<engineVars,
                   devices, physical_device, faults, swapDestroyLog, loopVars,
                   destroying, minimized, frame, resized, swapVars, localVars,
                   deviceVars, callLog, startFrame, callResult, error,
                   recreate_result, observed, resizedAtPresent, submitLog,
                   teardownLog, calls>>

\* app.rs:76  physical_device::pick_physical_device(&instance, &mut data)?
CreatePick ==
    /\ pc = "pick"
    /\ physical_device' = pick_physical_device(devices)
    /\ IF physical_device' # NoDevice
       THEN pc' = "create_rest" /\ UNCHANGED <<loop, setup>>
       ELSE CreateFails
    /\ UNCHANGED <<engineVars,
                   devices, resVars, loopVars,
                   destroying, minimized, frame, resized, swapVars, localVars,
                   deviceVars, callLog, startFrame, callResult, error,
                   recreate_result, observed, resizedAtPresent, submitLog,
                   teardownLog, calls>>

\* app.rs:78-108  the logical device, the swapchain and everything made from
\* them; main.rs:24-25 then sets its flags and enters the event loop
CreateRest ==
    /\ pc = "create_rest"
    /\ \/ /\ pc' = "idle"
          /\ setup' = "ok"
          /\ \E m \in 1 .. MaxImages :
                /\ imageCount' = m
                /\ images_in_flight' = [i \in 0 .. (m - 1) |-> Null]
          /\ destroyed' = {}
          /\ UNCHANGED loop
       \/ CreateFails /\ UNCHANGED <<imageCount, images_in_flight, destroyed>>
    /\ UNCHANGED <<engineVars,
                   devices, physical_device, faults, swapDestroyLog, loopVars,
                   destroying, minimized, frame, resized, recreates, localVars,
                   deviceVars, callLog, startFrame, callResult, error,
                   recreate_result, observed, resizedAtPresent, submitLog,
                   teardownLog, calls>>

\* setup and the first render tick after it
NextSetup ==
    \/ CreateInstance
    \/ CreatePick
    \/ CreateRest
    \/ MainEventsCleared

SpecSetup == InitSetup /\ [][NextSetup]_vars

\* a statement of a render call that returns without an error
CpuStep ==
    /\ \/ RenderWait
       \/ RenderAcquire
       \/ RenderCrossWait
       \/ RenderRecord
       \/ RenderUpdateUniformBuffer
       \/ RenderResetFences
       \/ RenderSubmit
       \/ RenderPresent
       \/ RenderAdvance
       \/ RecreateWaitIdle
       \/ RecreateBuild
       \/ RecreateReturn
    /\ loop' = "running"

\* the thread in a render call goes on unless it is blocked or the call fails,
\* and the graphics queue finishes the work submitted to it
SpecLive == Spec /\ WF_vars(CpuStep) /\ WF_vars(GpuComplete)

\* the events and steps of the frame protocol: render ticks, resizes, and GPU
\* completion (no close request)
NextFrames ==
    \/ MainEventsCleared
    \/ RenderWait
    \/ RenderAcquire
    \/ RenderCrossWait
    \/ RenderRecord
    \/ RenderUpdateUniformBuffer
    \/ RenderResetFences
    \/ RenderSubmit
    \/ RenderPresent
    \/ RenderAdvance
    \/ RecreateWaitIdle
    \/ RecreateBuild
    \/ RecreateReturn
    \/ GpuComplete
    \/ WindowResized

\* the frame protocol with present requests processed at the engine's pace
NextPresent ==
    \/ NextFrames
    \/ PresentConsume

SpecPresent == Init /\ [][NextPresent]_vars

\* the frame protocol with images released at the engine's pace
NextBlock ==
    \/ NextFrames
    \/ EngineBusy
    \/ EngineReady

SpecBlock == Init /\ [][NextBlock]_vars

\* the event loop with the events that are delivered after Exit was set
NextLoop ==
    \/ Next
    \/ QueuedWindowResized
    \/ QueuedCloseRequested

SpecLoop == Init /\ [][NextLoop]_vars

\* ------------------------------------------------------------ type invariant
TypeOK ==
    /\ pc \in {"idle", "wait", "acquire", "crosswait", "record", "update",
               "reset", "submit", "present", "advance", "recreate_wait",
               "recreate_build", "recreate_ret", "destroy_wait", "destroy",
               "dead"}
    /\ loop \in {"running", "exited", "panicked"}
    /\ frame \in Slots
    /\ imageCount \in 1 .. MaxImages
    /\ DOMAIN images_in_flight = 0 .. (imageCount - 1)
    /\ \A i \in DOMAIN images_in_flight : images_in_flight[i] \in Fences \cup {Null}
    /\ image_index \in 0 .. MaxImages
    /\ Len(gpuQueue) <= MAX_FRAMES_IN_FLIGHT
    /\ calls \in 0 .. MaxCalls

\* ================================================================== claims
\* frame slot that most recently submitted work for image index i of the
\* current swapchain (NoSlot if none did)
LastSlot(i) ==
    LET idx == {k \in 1 .. Len(submitLog) :
                    submitLog[k].image = i /\ submitLog[k].gen = recreates}
    IN  IF idx = {} THEN NoSlot
        ELSE submitLog[CHOOSE k \in idx : \A j \in idx : j <= k].slot

RecreatePcs == {"recreate_wait", "recreate_build", "recreate_ret"}

\* C1: in a render call that acquired image index i, the fence the table held
\* at i (if any) has been observed signaled by wait_for_fences before the
\* table entry is overwritten and before the command buffer is submitted; the
\* entry overwritten is the one that was waited on, and record never precedes
\* the cross-wait nor submit the record.
C1_CrossWaitBeforeReuse ==
    /\ (pc = "record" \/ Logged("record") \/ Logged("submit"))
           => (image_in_flight = Null \/ image_in_flight \in observed)
    /\ pc = "record" => images_in_flight[image_index] = image_in_flight
    /\ (Logged("record") /\ image_in_flight # Null) => Before("crosswait", "record")
    /\ Before("record", "submit")

\* a frame cross-waited on the other slot's fence, overwrote the entry and submitted
C1_Witness ==
    /\ Logged("submit")
    /\ image_in_flight # Null
    /\ image_in_flight # in_flight_fences[startFrame]
    /\ image_index \in DOMAIN images_in_flight
    /\ images_in_flight[image_index] = in_flight_fences[startFrame]

\* C2: between frames, as long as no Recreate has run, every table entry is
\* null or the in-flight fence of the slot that most recently submitted work
\* for that image index.
C2_TableHoldsLastSlotFence ==
    (pc = "idle" /\ loop = "running" /\ recreates = 0) =>
        \A i \in DOMAIN images_in_flight :
            \/ images_in_flight[i] = Null
            \/ /\ LastSlot(i) # NoSlot
               /\ images_in_flight[i] = in_flight_fences[LastSlot(i)]

\* an image index was used by one slot and later by the other
C2_Witness ==
    /\ pc = "idle" /\ loop = "running" /\ recreates = 0
    /\ \E i \in DOMAIN images_in_flight :
        /\ images_in_flight[i] # Null
        /\ \E k \in 1 .. Len(submitLog) :
               submitLog[k].image = i /\ submitLog[k].slot # LastSlot(i)

\* C3: a render call that presented and returned Ok moved the slot from s to
\* (s + 1) mod N whatever image was acquired, and the k-th submitted frame
\* ran on slot (k - 1) mod N: 0,1,0,1,...
C3_SlotAdvance ==
    /\ (pc = "idle" /\ callResult = "ok" /\ Logged("present"))
           => frame = (startFrame + 1) % MAX_FRAMES_IN_FLIGHT
    /\ \A k \in 1 .. Len(submitLog) :
           submitLog[k].slot = (k - 1) % MAX_FRAMES_IN_FLIGHT

\* three frames completed on slots 0,1,0 with different images acquired
C3_Witness ==
    /\ pc = "idle" /\ callResult = "ok"
    /\ Len(submitLog) = 3
    /\ submitLog[1].image # submitLog[2].image
    /\ frame = 1

\* C4: when acquire reports out of date, the call does no cross-wait, table
\* write, uniform update, fence reset, submit, present or slot advance; the
\* slot's fence stays signaled; Recreate runs once, and when the call has
\* returned the slot is the one it started with.
C4_OutOfDateAbandonsFrame ==
    acquire_result = OUT_OF_DATE_KHR =>
        /\ \A op \in {"crosswait", "record", "update", "reset", "submit",
                      "present", "advance"} : ~Logged(op)
        /\ frame = startFrame
        /\ fenceSignaled[in_flight_fences[frame]]
        /\ Count("device_wait_idle") <= 1 /\ Count("recreate") <= 1
        /\ callResult = "ok" =>
               /\ callLog = <<"wait", "acquire", "device_wait_idle", "recreate">>
               /\ pc = "idle"
        /\ pc = "idle" => callResult = "ok"

\* a call abandoned at acquire has returned Ok after earlier frames were submitted
C4_Witness ==
    /\ pc = "idle" /\ callResult = "ok"
    /\ acquire_result = OUT_OF_DATE_KHR
    /\ Len(submitLog) >= 1
    /\ startFrame = 1

\* C5 (as claimed): on return from Recreate every table entry is null.
C5_TableClearedAfterRecreate ==
    pc = "recreate_ret" =>
        \A i \in DOMAIN images_in_flight : images_in_flight[i] = Null

\* C6: a render call never returns a staleness code as its error, and a call
\* whose acquire was out of date or whose present was suboptimal or out of
\* date returns Ok, after Recreate, whenever the rebuild succeeded.
C6_StalenessNotAFailure ==
    LET stale == \/ acquire_result = OUT_OF_DATE_KHR
                 \/ present_result \in {SUBOPTIMAL_KHR, OUT_OF_DATE_KHR}
    IN  /\ callResult = "err" => error \in FatalErrors
        /\ (stale /\ callResult = "err") => recreate_result \in FatalErrors
        /\ (stale /\ pc = "idle") => (callResult = "ok" /\ Logged("recreate"))

\* present returned out of date and the call returned Ok
C6_Witness ==
    /\ pc = "idle" /\ callResult = "ok"
    /\ present_result = OUT_OF_DATE_KHR
    /\ Logged("recreate")

\* C7 (as claimed): a fatal error from acquire or present makes the call fail,
\* and no Recreate answers it.
C7_FatalErrorsPropagate ==
    (acquire_result \in FatalErrors \/ present_result \in FatalErrors) =>
        /\ callResult = "err"
        /\ pc \notin RecreatePcs
        /\ ~Logged("device_wait_idle")

\* C8: when present returns clean success with the resize flag set, Recreate
\* is entered in that call after the present; the call fails only if the
\* rebuild does, and when it returns the slot has advanced.
C8_ResizeFlagForcesRecreate ==
    (present_result = SUCCESS /\ resizedAtPresent) =>
        /\ pc = "recreate_wait" \/ Logged("device_wait_idle")
        /\ Before("present", "device_wait_idle")
        /\ callResult = "err" => recreate_result \in FatalErrors
        /\ pc = "idle" =>
               /\ callResult = "ok"
               /\ Logged("recreate") /\ Before("recreate", "advance")
               /\ frame = (startFrame + 1) % MAX_FRAMES_IN_FLIGHT

\* a flag-forced Recreate completed and the slot moved on
C8_Witness ==
    /\ pc = "idle" /\ callResult = "ok"
    /\ present_result = SUCCESS /\ resizedAtPresent
    /\ Logged("recreate")
    /\ frame # startFrame

\* C9 (as claimed): on return from any Recreate the resize flag is false.
C9_RecreateClearsResizeFlag ==
    pc = "recreate_ret" => ~resized

\* C10 (as claimed): when a render call has failed and the process has ended,
\* a device-idle wait and the teardown were attempted.
C10_FatalErrorTearsDown ==
    (loop = "panicked" /\ callResult = "err") =>
        /\ Len(teardownLog) >= 1
        /\ teardownLog[1] = "device_wait_idle"

\* --------------------------------------------------------- handles, claims
\* App::destroy has run to its end
TornDown == destroyCalls >= 1 /\ (pc = "idle" \/ loop = "exited")

SwapchainBatch == Range(RecreateOrder)

InstanceLevel == {"messenger", "surface", "instance"}

LongLivedDevice == (Handles \ SwapchainBatch) \ InstanceLevel

\* the handles App::destroy destroys, in its order (app.rs:203-223)
Destroyed == DestroySwapchainOrder \o DestroyOrder

\* the stage of App::destroy a handle belongs to: the swapchain batch, the
\* long-lived device objects, the device, the instance-level objects, the
\* instance
Stage(h) ==
    CASE h \in SwapchainBatch -> 1
      [] h = "device" -> 3
      [] h = "instance" -> 5
      [] h \in InstanceLevel -> 4
      [] OTHER -> 2

\* <<a, b>>: handle a is made from handle b and must be destroyed before it
\* (command buffers are allocated from the pool, views and framebuffers are
\* made from the swapchain images and the render pass, and so on)
DependsOn ==
    {<<"command_buffers", "command_pool">>,
     <<"swapchain_image_views", "swapchain">>,
     <<"swapchain", "surface">>,
     <<"device", "instance">>,
     <<"surface", "instance">>,
     <<"messenger", "instance">>,
     <<"framebuffers", "render_pass">>,
     <<"framebuffers", "swapchain_image_views">>,
     <<"depth_image_view", "depth_image">>,
     <<"pipeline", "pipeline_layout">>,
     <<"pipeline", "render_pass">>,
     <<"pipeline_layout", "descriptor_set_layout">>}
    \cup {<<h, "device">> : h \in (SwapchainBatch \cup LongLivedDevice) \ {"device"}}

\* App::destroy destroys every handle once, stage by stage, and none after a
\* handle it depends on
DestroyedInOrder ==
    /\ Len(Destroyed) = Len(CreateOrder)
    /\ \A h \in Handles : \E k \in 1 .. Len(Destroyed) : Destroyed[k] = h
    /\ \A k \in 1 .. (Len(Destroyed) - 1) :
           Stage(Destroyed[k]) <= Stage(Destroyed[k + 1])
    /\ \A d \in DependsOn :
           (d[1] \in Handles /\ d[2] \in Handles)
               => Pos(Destroyed, d[1]) < Pos(Destroyed, d[2])

\* the resource of the claim's creation order that a Data field belongs to
Group(h) ==
    CASE h \in {"depth_image", "depth_image_memory", "depth_image_view"} -> "depth"
      [] h \in {"pipeline", "pipeline_layout"} -> "pipeline"
      [] h \in {"uniform_buffers", "uniform_buffers_memory"} -> "uniform_buffers"
      [] OTHER -> h

RECURSIVE Groups(_)
\* the sequence of resources a sequence of handles runs through
Groups(seq) ==
    IF seq = <<>> THEN <<>>
    ELSE IF Len(seq) > 1 /\ Group(seq[1]) = Group(seq[2]) THEN Groups(Tail(seq))
    ELSE <<Group(Head(seq))>> \o Groups(Tail(seq))

Reverse(seq) == [k \in 1 .. Len(seq) |-> seq[Len(seq) + 1 - k]]

\* C11: while destroy has run at most once, no handle is destroyed that is not
\* live and none is overwritten while live (across every Recreate); until
\* teardown every handle App::create made is live, and after the final
\* destroy none is.
C11_NoLeakNoDoubleFree ==
    destroyCalls <= 1 =>
        /\ faults = {}
        /\ (loop = "running" /\ ~TornDown /\ pc # "recreate_build")
               => live = Handles
        /\ TornDown => live = {}

\* frames and a Recreate ran before the final destroy released everything
C11_Witness ==
    /\ loop = "exited" /\ destroyCalls = 1
    /\ live = {} /\ faults = {}
    /\ recreates >= 1
    /\ Len(submitLog) >= 2

\* C12: App::destroy waits for the device to be idle first, then destroys the
\* swapchain batch, then the long-lived device objects with the device last,
\* then the instance-level objects with the instance last, and no handle is
\* destroyed after one it depends on.
C12_TeardownOrder ==
    (TornDown /\ destroyCalls = 1) =>
        /\ teardownLog = <<"device_wait_idle">> \o Destroyed
        /\ DestroyedInOrder

\* a teardown that followed submitted frames has completed
C12_Witness ==
    /\ loop = "exited" /\ destroyCalls = 1
    /\ Len(teardownLog) = 1 + Len(CreateOrder)
    /\ Len(submitLog) >= 1

\* C13 (as claimed): Recreate waits for the device to be idle and then
\* destroys the extent-dependent resources in the strict reverse of the order
\* in which it creates them.
C13_RecreateDestroysInReverse ==
    pc = "recreate_ret" =>
        /\ Before("device_wait_idle", "recreate")
        /\ Groups(swapDestroyLog) = Reverse(Groups(RecreateOrder))

\* C14: semaphores are paired by frame slot: in a call on slot s, acquire is
\* asked to signal image_available[s], the submit waits on that same
\* semaphore, signals render_finished[s] and the in-flight fence of s, and
\* the present waits on the semaphore the submit signals.
C14_SemaphoresPairedBySlot ==
    /\ Logged("acquire") =>
           callArgs.acquire_semaphore = image_available_semaphores[startFrame]
    /\ Logged("submit") =>
           /\ callArgs.wait_semaphores = callArgs.acquire_semaphore
           /\ callArgs.signal_semaphores = render_finished_semaphores[startFrame]
           /\ callArgs.submit_fence = in_flight_fences[startFrame]
    /\ Logged("present") =>
           /\ callArgs.present_wait = callArgs.signal_semaphores
           /\ callArgs.present_wait = render_finished_semaphores[startFrame]

\* a frame on slot 1 that acquired image 0 was submitted and presented
C14_Witness ==
    /\ Logged("present")
    /\ startFrame = 1 /\ image_index = 0
    /\ callArgs.wait_semaphores = image_available_semaphores[1]

\* C17 (as claimed): a Recreate entered after present returns to Idle on the
\* slot the frame started with, as one entered from acquire does; only a
\* frame whose present needs no Recreate moves to the next slot.
C17_RecreateKeepsSlot ==
    (pc = "idle" /\ callResult = "ok") =>
        /\ Logged("recreate") => frame = startFrame
        /\ frame # startFrame => (Logged("present") /\ ~Logged("recreate"))

\* C17 (amended): a Recreate entered from acquire returns to Idle on the
\* slot the frame started with; a Recreate entered after present returns to
\* Idle on the next slot, as a frame whose present needs no Recreate does.
C17_RecreateAfterPresentAdvances ==
    (pc = "idle" /\ callResult = "ok") =>
        /\ (Logged("recreate") /\ entry = "acquire") => frame = startFrame
        /\ (Logged("recreate") /\ entry = "present") =>
               frame = (startFrame + 1) % MAX_FRAMES_IN_FLIGHT
        /\ frame # startFrame <=> Logged("present")

\* present was out of date on slot 1, Recreate ran and the slot is 0 again
C17_Witness ==
    /\ pc = "idle" /\ callResult = "ok"
    /\ Logged("recreate") /\ entry = "present"
    /\ present_result = OUT_OF_DATE_KHR
    /\ startFrame = 1 /\ frame = 0

\* C18: the uniform buffer of image i is written once per submitted frame,
\* after the cross-wait and before the submit, for the acquired image index,
\* and while it is written no submitted command buffer for image i is still
\* executing.
C18_UniformUpdateNeverRaces ==
    /\ pc = "update" =>
           \A k \in 1 .. Len(gpuQueue) : gpuQueue[k].image # image_index
    /\ Logged("update") =>
           /\ callArgs.update_index = image_index
           /\ image_in_flight # Null => Before("crosswait", "update")
    /\ Logged("submit") =>
           /\ Count("update") = 1
           /\ Before("update", "submit")

\* after a Recreate, a frame reused an image for which a command buffer had
\* been submitted to the same swapchain, and wrote its uniform buffer
C18_Witness ==
    /\ Logged("update") /\ Logged("submit")
    /\ recreates >= 1
    /\ \E k \in 1 .. (Len(submitLog) - 1) :
           submitLog[k].image = image_index /\ submitLog[k].gen = recreates

\* C19: whenever a render call can start or is indexing the table, the table
\* has exactly one entry per image of the current swapchain, and the index
\* acquire returned is an index of the table.
C19_TableMatchesImageCount ==
    /\ pc \in {"idle", "wait", "acquire", "crosswait", "record"} =>
           DOMAIN images_in_flight = 0 .. (imageCount - 1)
    /\ pc \in {"crosswait", "record"} => image_index \in DOMAIN images_in_flight

\* after a Recreate, a frame indexes the last entry of a table of MaxImages
\* entries whose first entry is still the one an earlier swapchain left
C19_Witness ==
    /\ pc = "record"
    /\ recreates >= 1
    /\ imageCount = MaxImages /\ image_index = MaxImages - 1
    /\ images_in_flight[0] # Null
    /\ \A k \in 1 .. Len(submitLog) : submitLog[k].gen < recreates

\* a submitted job that will signal fence f is in the queue
Pending(f) == \E k \in 1 .. Len(gpuQueue) : gpuQueue[k].fence = f

\* C16: while the program runs, every in-flight fence is signaled or has a
\* submitted job that will signal it, except the current slot's fence
\* between its reset and the submit that follows; so at the start of a
\* render call the Wait step has something to wait for, and if the GPU
\* finishes submitted work every render call returns.
C16_WaitNeverBlocksForever ==
    /\ [](loop = "running" =>
             \A f \in Fences :
                 \/ fenceSignaled[f]
                 \/ Pending(f)
                 \/ pc = "submit" /\ f = in_flight_fences[frame])
    /\ (pc = "wait") ~> (pc \in {"idle", "dead"})

\* a render call starts on a slot whose fence is unsignaled, its job pending
C16_Witness ==
    /\ pc = "wait"
    /\ ~fenceSignaled[in_flight_fences[frame]]
    /\ Pending(in_flight_fences[frame])

\* positions of the thread inside a render call
RenderPcs ==
    {"wait", "acquire", "crosswait", "record", "update", "reset", "submit",
     "present", "advance"} \cup RecreatePcs

\* C20 (as claimed): for every interleaving of render-tick, resize and
\* close-request events, render is not invoked after destroy has run, destroy
\* is invoked at most once, render is not invoked while the last reported
\* size has a zero width or height, and no zero-size resize event sets the
\* resize flag.
C20_EventLoopGuards ==
    /\ pc \in RenderPcs => destroyCalls = 0
    /\ destroyCalls <= 1
    /\ pc \in RenderPcs => ~IsZeroSize(lastSize)
    /\ resized => ~IsZeroSize(resizedBy)

\* C15: no render call starts unless App::create returned Ok; when it
\* returns Err the process ends with no render call made; the device
\* selected is the first that passes check_physical_device, so it reports at
\* least one surface format and one present mode, and when no device passes
\* setup fails.
C15_NoRenderWithoutSetup ==
    /\ pc \in RenderPcs => setup = "ok"
    /\ setup = "err" => (pc = "dead" /\ loop = "panicked" /\ calls = 0)
    /\ physical_device # NoDevice =>
           /\ devices[physical_device].formats > 0
           /\ devices[physical_device].present_modes > 0
           /\ \A k \in 1 .. (physical_device - 1) : ~check_physical_device(devices[k])
    /\ (pc \notin {"create", "pick"}
          /\ \A k \in 1 .. Len(devices) :
                 devices[k].formats = 0 \/ devices[k].present_modes = 0)
           => (physical_device = NoDevice /\ setup = "err")

\* a device without surface formats was skipped, the next one was selected,
\* setup completed and the first render call started
C15_Witness ==
    /\ pc = "wait" /\ setup = "ok"
    /\ Len(devices) = 2
    /\ devices[1].queues /\ devices[1].swapchain_ext
    /\ devices[1].formats = 0 /\ devices[1].present_modes > 0
    /\ physical_device = 2

\* C21 (as claimed): no semaphore is signaled while an earlier signal on it is
\* still unconsumed: whenever acquire or submit requests a signal of a
\* semaphore, every earlier signal of it has been consumed by its wait, so no
\* semaphore ever has two signal operations outstanding.
C21_NoSignalWhileUnconsumed ==
    loop = "running" => \A x \in Semaphores : signals[x] <= 1

\* the thread is inside a render call and its current statement cannot return
\* without an error yet
Blocked == pc \in RenderPcs /\ ~ENABLED CpuStep

\* C22 (as claimed): within a render call the thread can block only in the
\* Wait step and in the Cross-wait step; no other step, acquire and Recreate
\* included, blocks.
C22_OnlyWaitAndCrossWaitBlock ==
    Blocked => pc \in {"wait", "crosswait"}

\* C22 (amended): within a render call the thread can block in four places
\* only: in the Wait step until the fence of the slot is signaled, in acquire
\* until the presentation engine answers, in the Cross-wait until the fence
\* recorded for the image is signaled, and at the start of Recreate until the
\* device is idle; it blocks there exactly then, and in no other step.
C22_BlockingPoints ==
    /\ Blocked => pc \in {"wait", "acquire", "crosswait", "recreate_wait"}
    /\ pc = "wait" => (Blocked <=> ~fenceSignaled[in_flight_fences[frame]])
    /\ pc = "acquire" => (Blocked <=> ~acquirable)
    /\ pc = "crosswait" =>
           (Blocked <=> /\ images_in_flight[image_index] # Null
                        /\ ~fenceSignaled[images_in_flight[image_index]])
    /\ pc = "recreate_wait" => (Blocked <=> gpuQueue # <<>>)

\* Recreate entered after a present waits for the frame it just submitted
C22_Witness ==
    /\ Blocked
    /\ pc = "recreate_wait" /\ entry = "present"
    /\ Len(gpuQueue) >= 1

====
